---- MODULE Spec2Model ----
(***************************************************************************)
(* Model of src/main.py: a FastAPI service with four handlers              *)
(*   POST /upload/            upload_file                                  *)
(*   POST /generate-plots/    generate_all_plots                           *)
(*   GET  /download-plot/     download_plot                                *)
(*   GET  /download-all-plots/ download_all_plots                          *)
(* sharing one directory of images, PLOT_DIR.                              *)
(*                                                                         *)
(* Strings that are used as paths are modelled by their structure: a name  *)
(* is a flag (does it start with "/") and the sequence of its              *)
(* "/"-separated segments; a segment is a stem and, for a file name built  *)
(* by f"{column}_{plot_type}.png", the plot type.  Cell values are the     *)
(* strings "1", "s", "ts" (a timestamp), "nan" (missing), "inf", "-inf"    *)
(* and "0".                                                               *)
(***************************************************************************)
EXTENDS Integers, Sequences, FiniteSets, TLC

(* ------------------------------ bounds -------------------------------- *)

\* worker processes serving the application (each runs one handler at a
\* time: the handlers are coroutines that never await)
NumWorkers == 2
\* requests accepted over a run
MaxRequests == 3
\* rows of the tables of the upload pipeline
MaxRows == 2
\* normalizations applied in a row to one table
MaxPasses == 2

Workers == 1..NumWorkers

(* ------------------------------ strings ------------------------------- *)

Seg(s, k) == [stem |-> s, kind |-> k]
Raw(s) == Seg(s, "")
Up == Raw("..")
Rel(segs) == [abs |-> FALSE, segs |-> segs]
Str(s) == Rel(<<Raw(s)>>)
EmptyStr == Rel(<< >>)

\* str.endswith(suffixes) on strings given as sequences of characters
EndsWithOne(s, suf) ==
    /\ Len(s) >= Len(suf)
    /\ SubSeq(s, Len(s) - Len(suf) + 1, Len(s)) = suf

endswith(s, sufs) == \E suf \in sufs : EndsWithOne(s, suf)

ExcelSuffixes == { <<".", "x", "l", "s">>, <<".", "x", "l", "s", "x">> }

\* f"{column}_{plot_type}.png": the suffix lands on the last segment
PlotFileName(column, plot_type) ==
    LET n == Len(column.segs)
    IN  [abs |-> column.abs,
         segs |-> [i \in 1..n |-> IF i = n THEN Seg(column.segs[i].stem, plot_type)
                                           ELSE column.segs[i]]]

(* ------------------------------ os.path ------------------------------- *)

\* absolute paths are sequences of segments from the root
Cwd == <<Raw("srv")>>
PLOT_DIR == Rel(<<Raw("plots")>>)
PlotDirPath == Cwd \o PLOT_DIR.segs

\* os.path.join(a, b): b alone when b is absolute
join(a, b) == IF b.abs THEN b ELSE [abs |-> a.abs, segs |-> a.segs \o b.segs]

\* os.path.basename(p): what follows the last "/"
basename(p) == IF p.segs = << >> THEN EmptyStr ELSE Rel(<<p.segs[Len(p.segs)]>>)

\* the directories of the file system: the root, the working directory and
\* the plot directory made at start-up; no handler makes or removes one
Dirs == { << >>, Cwd, PlotDirPath }

Parent(d) == IF d = << >> THEN << >> ELSE SubSeq(d, 1, Len(d) - 1)

NoPath == <<Raw("?")>>

\* the kernel's walk over a path: every segment but the last must lead
\* through a directory
RECURSIVE Walk(_, _)
Walk(cur, rest) ==
    IF rest = << >> THEN cur
    ELSE IF cur \notin Dirs THEN NoPath
    ELSE IF Head(rest) = Up THEN Walk(Parent(cur), Tail(rest))
    ELSE Walk(Append(cur, Head(rest)), Tail(rest))

Resolve(p) == Walk(IF p.abs THEN << >> ELSE Cwd, p.segs)

(* ------------------------------ tables -------------------------------- *)

\* A DataFrame: its columns in order (name, and whether the dtype is a
\* number dtype) and its rows, each a sequence of cells aligned with the
\* columns.
Missing == "nan"
PosInf == "inf"
NegInf == "-inf"
Zero == "0"
NumberCells == { "1", Zero, Missing, PosInf, NegInf }
Cells == NumberCells \cup { "s", "ts" }

Col(name, numeric) == [name |-> name, numeric |-> numeric]

DataFrame(cols, rows) == [cols |-> cols, rows |-> rows]

EmptyFrame == DataFrame(<< >>, << >>)

\* what pd.read_excel hands back: a number column holds only numbers and
\* missing values, no two columns share a name, the rows are aligned
WellFormed(df) ==
    /\ \A i, j \in 1..Len(df.cols) : df.cols[i].name = df.cols[j].name => i = j
    /\ \A r \in 1..Len(df.rows) :
         /\ Len(df.rows[r]) = Len(df.cols)
         /\ \A c \in 1..Len(df.cols) :
              df.cols[c].numeric => df.rows[r][c] \in NumberCells

\* df.fillna(0, inplace=True)
FillCell(v) == IF v = Missing THEN Zero ELSE v

fillna(df) ==
    DataFrame(df.cols,
              [r \in 1..Len(df.rows) |->
                 [c \in 1..Len(df.rows[r]) |-> FillCell(df.rows[r][c])]])

\* df.replace([float('inf'), float('-inf')], 0, inplace=True)
ReplaceCell(v) == IF v \in { PosInf, NegInf } THEN Zero ELSE v

\* a replace whose list holds float('inf') alone
ReplacePosOnly(v) == IF v = PosInf THEN Zero ELSE v

replace_pos_only(df) ==
    DataFrame(df.cols,
              [r \in 1..Len(df.rows) |->
                 [c \in 1..Len(df.rows[r]) |-> ReplacePosOnly(df.rows[r][c])]])

replace(df) ==
    DataFrame(df.cols,
              [r \in 1..Len(df.rows) |->
                 [c \in 1..Len(df.rows[r]) |-> ReplaceCell(df.rows[r][c])]])

Normalizer(df) == replace(fillna(df))

\* a serializer that loses the first row
to_dict_tail(df) ==
    [r \in 1..(Len(df.rows) - 1) |->
       [c \in 1..Len(df.cols) |-> [key |-> df.cols[c].name, value |-> df.rows[r + 1][c]]]]

\* df.to_dict(orient='records'): one ordered mapping per row
to_dict(df) ==
    [r \in 1..Len(df.rows) |->
       [c \in 1..Len(df.cols) |-> [key |-> df.cols[c].name, value |-> df.rows[r][c]]]]

\* len(df)
len(df) == Len(df.rows)

\* JSONResponse renders its content when it is constructed; json.dumps
\* (allow_nan=False) refuses a timestamp, a NaN and an infinity
Renderable(data) ==
    \A r \in 1..Len(data) : \A c \in 1..Len(data[r]) :
        data[r][c].value \notin { "ts", Missing, PosInf, NegInf }

\* df.select_dtypes(include=['number']).columns
RECURSIVE SelectNumber(_)
SelectNumber(cols) ==
    IF cols = << >> THEN << >>
    ELSE IF Head(cols).numeric THEN <<Head(cols).name>> \o SelectNumber(Tail(cols))
    ELSE SelectNumber(Tail(cols))

\* a selection that keeps every column
all_columns_of(df) == [c \in 1..Len(df.cols) |-> df.cols[c].name]

numeric_columns_of(df) == SelectNumber(df.cols)

(* ----------------------------- responses ------------------------------ *)

\* the uploaded file as the parser sees it: a spreadsheet or not
Parsed(df) == [ok |-> TRUE, df |-> df]
ParseError == [ok |-> FALSE, df |-> EmptyFrame]

\* What a request was answered with.  read: whether pd.read_excel was
\* called for it; filename and upload: the file it uploaded; written: the
\* plot_paths of a sweep when it ended; during: the plot_paths that the
\* sweeps in progress had reached when a zip was built.
Response(ep, status) ==
    [ep |-> ep, status |-> status, filename |-> << >>, upload |-> ParseError,
     read |-> FALSE,
     plot_name |-> EmptyStr, num_rows |-> 0, data |-> << >>, plots |-> << >>,
     written |-> << >>, members |-> << >>, during |-> {}]

NoResponse == Response("none", 0)

Request(ep, status, filename, upload) ==
    [Response(ep, status) EXCEPT !.filename = filename, !.upload = upload]

\* upload_file, lines 22-44: every exception, the handler's own
\* HTTPException included, is answered 400
upload_file(filename, upload) ==
    IF ~endswith(filename, ExcelSuffixes)
    THEN Request("upload", 400, filename, upload)
    ELSE IF ~upload.ok
    THEN [Request("upload", 400, filename, upload) EXCEPT !.read = TRUE]
    ELSE LET df == Normalizer(upload.df)
             data == to_dict(df)
         IN  IF ~Renderable(data)
             THEN [Request("upload", 400, filename, upload) EXCEPT !.read = TRUE]
             ELSE [Request("upload", 200, filename, upload) EXCEPT
                     !.read = TRUE, !.num_rows = len(df), !.data = data]

(* ------------------------------- state -------------------------------- *)

VARIABLES
    files,     \* the regular files on disk: absolute path -> the table it was drawn from
    proc,      \* per worker process: the handler it is running and its locals
    last,      \* the response sent last
    listed,    \* every name a successful sweep's response has listed
    nreq,      \* requests accepted so far
    raw,       \* upload pipeline: the table as loaded
    tbl,       \* upload pipeline: the table, normalized in place
    passes     \* upload pipeline: normalizations applied to tbl

vars == <<files, proc, last, listed, nreq, raw, tbl, passes>>

Idle == [pc |-> "idle", upload |-> ParseError, filename |-> << >>, numeric_columns |-> << >>,
         col |-> 0, kind |-> 0, plot_paths |-> << >>]

\* line 69
plot_types == <<"line", "bar", "scatter", "hist">>

(* ---------------------------- file system ----------------------------- *)

\* os.path.exists(p)
exists(fs, p) == Resolve(p) \in Dirs \cup DOMAIN fs

IsFile(fs, p) == Resolve(p) \in DOMAIN fs

\* open(p, "wb") succeeds: the walk ends in a directory, on a name that is
\* not itself a directory
CanCreate(p) == Resolve(p) # NoPath /\ Resolve(p) \notin Dirs

\* plt.savefig(p) of a figure drawn from df: creates or overwrites
savefig(fs, p, df) ==
    [q \in DOMAIN fs \cup { Resolve(p) } |-> IF q = Resolve(p) THEN df ELSE fs[q]]

\* os.listdir(PLOT_DIR): the names in the plot directory
listdir(fs) == { Rel(<<q[Len(q)]>>) : q \in { f \in DOMAIN fs : Parent(f) = PlotDirPath } }

\* FileResponse as sent: os.stat(path) must succeed and name a regular
\* file; anything else raises after the handler has returned, and the
\* server answers 500
FileResponse(fs, target) ==
    IF target.isPath /\ IsFile(fs, target.path) THEN 200 ELSE 500

PathTarget(p) == [isPath |-> TRUE, path |-> p]
BufferTarget == [isPath |-> FALSE, path |-> EmptyStr]

\* download_plot, lines 113-117, as a function of the disk
DownloadStatus(fs, plot_name) ==
    LET plot_path == join(PLOT_DIR, plot_name)
    IN  IF exists(fs, plot_path) THEN FileResponse(fs, PathTarget(plot_path)) ELSE 404

(* ------------------------------- inputs ------------------------------- *)

\* uploaded file names: "d.xlsx", "d.xls", "d.csv"
FileNames ==
    { <<"d", ".", "x", "l", "s", "x">>, <<"d", ".", "x", "l", "s">>,
      <<"d", ".", "c", "s", "v">> }

ColA == Str("A")
ColB == Str("B")
ColS == Str("S")
\* the header "../x"
ColUpX == Rel(<<Up, Raw("x")>>)
\* the header "km/h"
ColKmH == Rel(<<Raw("km"), Raw("h")>>)

\* what the uploads of the server runs parse to
SweepFrames ==
    { DataFrame(<<Col(ColA, TRUE)>>, << <<"1">> >>),
      DataFrame(<<Col(ColA, TRUE), Col(ColB, TRUE)>>, << <<"1", Missing>> >>),
      DataFrame(<<Col(ColS, FALSE)>>, << <<"s">> >>),
      DataFrame(<<Col(ColS, FALSE), Col(ColUpX, TRUE)>>, << <<Missing, PosInf>> >>),
      DataFrame(<<Col(ColKmH, TRUE)>>, << <<"1">> >>) }

Uploads == { ParseError } \cup { Parsed(df) : df \in SweepFrames }

\* plot_name values asked for: "A_line.png", "A_scatter.png", "x_line.png",
\* "../x_line.png", "nope.png" and the empty string
PlotNames ==
    { Rel(<<Seg("A", "line")>>), Rel(<<Seg("A", "scatter")>>), Rel(<<Seg("x", "line")>>),
      Rel(<<Up, Seg("x", "line")>>), Str("nope.png"), EmptyStr }

Faults == { "none", "render", "save" }

(* ------------------------------ handlers ------------------------------ *)

\* a server that holds one lock over every request
AcceptingExclusive(w) ==
    /\ \A v \in Workers : proc[v].pc = "idle"
    /\ nreq < MaxRequests

\* a worker takes a request when it runs no handler: the handlers are
\* coroutines without an await, so a worker runs each to its end
Accepting(w) == proc[w].pc = "idle" /\ nreq < MaxRequests

Pipeline == <<raw, tbl, passes>>

\* POST /upload/, lines 16-44
post_upload(w, filename, upload) ==
    /\ Accepting(w)
    /\ nreq' = nreq + 1
    /\ last' = upload_file(filename, upload)
    /\ UNCHANGED <<files, proc, listed, Pipeline>>

\* a handler that never looks at the file name
generate_all_plots_unchecked(filename, upload) ==
    IF ~upload.ok
    THEN [Request("generate", 400, filename, upload) EXCEPT !.read = TRUE]
    ELSE IF numeric_columns_of(Normalizer(upload.df)) = << >>
    THEN [Request("generate", 400, filename, upload) EXCEPT !.read = TRUE]
    ELSE NoResponse

\* POST /generate-plots/ up to the loop, lines 52-70: the answer when the
\* request ends there, NoResponse when the sweep starts
generate_all_plots_check(filename, upload) ==
    IF ~endswith(filename, ExcelSuffixes)
    THEN Request("generate", 400, filename, upload)
    ELSE IF ~upload.ok
    THEN [Request("generate", 400, filename, upload) EXCEPT !.read = TRUE]
    ELSE IF numeric_columns_of(Normalizer(upload.df)) = << >>
    THEN [Request("generate", 400, filename, upload) EXCEPT !.read = TRUE]
    ELSE NoResponse

generate_all_plots(w, filename, upload) ==
    LET answer == generate_all_plots_check(filename, upload)
    IN  /\ Accepting(w)
        /\ nreq' = nreq + 1
        /\ IF answer # NoResponse
           THEN /\ last' = answer
                /\ proc' = proc
           ELSE /\ last' = last
                /\ proc' = [proc EXCEPT ![w] =
                              [pc |-> "sweep", upload |-> upload, filename |-> filename,
                               numeric_columns |-> numeric_columns_of(Normalizer(upload.df)),
                               col |-> 1, kind |-> 1, plot_paths |-> << >>]]
        /\ UNCHANGED <<files, listed, Pipeline>>

\* the answer of a sweep that raised, line 105
SweepFailed(p) ==
    [Request("generate", 400, p.filename, p.upload) EXCEPT
       !.read = TRUE, !.written = p.plot_paths]

\* the answer of a sweep that ran to its end, lines 95-102
SweepDone(p, plot_paths) ==
    [Request("generate", 200, p.filename, p.upload) EXCEPT
       !.read = TRUE, !.written = plot_paths,
       !.plots = [i \in 1..Len(plot_paths) |-> basename(plot_paths[i])]]

\* the loop's next (column, plot_type)
Advance(p) ==
    IF p.kind < Len(plot_types) THEN [p EXCEPT !.kind = p.kind + 1]
    ELSE [p EXCEPT !.col = p.col + 1, !.kind = 1]

\* line 83
SkipScatter(p) == plot_types[p.kind] = "scatter" /\ Len(p.numeric_columns) < 2

\* line 90
PlotPath(p) == join(PLOT_DIR, PlotFileName(p.numeric_columns[p.col], plot_types[p.kind]))

\* one iteration of the loop of lines 73-93 and, after the last one, the
\* return of lines 95-102.  fault: whether the plotting library raises
\* while rendering, or while writing the file it has opened
generate_all_plots_loop(w, fault) ==
    LET p == proc[w]
        plot_path == PlotPath(p)
        plot_paths == Append(p.plot_paths, plot_path)
        isLast == p.col = Len(p.numeric_columns) /\ p.kind = Len(plot_types)
    IN  /\ p.pc = "sweep"
        /\ UNCHANGED <<nreq, Pipeline>>
        /\ IF SkipScatter(p)
           THEN /\ fault = "none"
                /\ proc' = [proc EXCEPT ![w] = Advance(p)]
                /\ UNCHANGED <<files, last, listed>>
           ELSE IF fault = "render" \/ ~CanCreate(plot_path)
           THEN /\ fault # "save"
                /\ proc' = [proc EXCEPT ![w] = Idle]
                /\ last' = SweepFailed(p)
                /\ UNCHANGED <<files, listed>>
           ELSE IF fault = "save"
           THEN /\ proc' = [proc EXCEPT ![w] = Idle]
                /\ last' = SweepFailed(p)
                /\ files' = savefig(files, plot_path, Normalizer(p.upload.df))
                /\ UNCHANGED listed
           ELSE /\ files' = savefig(files, plot_path, Normalizer(p.upload.df))
                /\ IF isLast
                   THEN /\ proc' = [proc EXCEPT ![w] = Idle]
                        /\ last' = SweepDone(p, plot_paths)
                        /\ listed' = listed \cup
                              { basename(plot_paths[i]) : i \in 1..Len(plot_paths) }
                   ELSE /\ proc' = [proc EXCEPT ![w] =
                                      [Advance(p) EXCEPT !.plot_paths = plot_paths]]
                        /\ UNCHANGED <<last, listed>>

\* GET /download-plot/, lines 108-117
download_plot(w, plot_name) ==
    /\ Accepting(w)
    /\ nreq' = nreq + 1
    /\ last' = [Response("download_plot", DownloadStatus(files, plot_name)) EXCEPT
                  !.plot_name = plot_name]
    /\ UNCHANGED <<files, proc, listed, Pipeline>>

\* the zip of lines 129-132: member name -> member content
ZipAll(fs) == [n \in listdir(fs) |-> fs[PlotDirPath \o n.segs]]

Range(seq) == { seq[i] : i \in 1..Len(seq) }

\* the paths written so far by the sweeps that are running
InProgress == UNION { Range(proc[v].plot_paths) : v \in Workers }

\* GET /download-all-plots/, lines 120-143: the FileResponse is handed the
\* BytesIO buffer where a path is expected
download_all_plots(w) ==
    /\ Accepting(w)
    /\ nreq' = nreq + 1
    /\ last' = [Response("download_all", FileResponse(files, BufferTarget)) EXCEPT
                  !.members = ZipAll(files), !.during = InProgress]
    /\ UNCHANGED <<files, proc, listed, Pipeline>>

(* --------------------------- upload pipeline -------------------------- *)

ColumnPool == <<ColA, ColB>>

NumberInputs == { "1", Missing, PosInf, NegInf }
OtherInputs == { "s", "ts", Missing, PosInf }

RowsOf(flags) ==
    { row \in [1..Len(flags) -> NumberInputs \cup OtherInputs] :
        \A c \in 1..Len(flags) :
            row[c] \in (IF flags[c] THEN NumberInputs ELSE OtherInputs) }

\* df is a table of up to MaxRows rows over the first columns of the pool
IsFrame(df) ==
    \E n \in 0..Len(ColumnPool) : \E flags \in [1..n -> BOOLEAN] :
        \E m \in (IF n = 0 THEN {0} ELSE 0..MaxRows) : \E rows \in [1..m -> RowsOf(flags)] :
            df = DataFrame([c \in 1..n |-> Col(ColumnPool[c], flags[c])], rows)

GoodName == <<"d", ".", "x", "l", "s">>

\* lines 31-32 (and 61-62) on the table held in tbl
normalize_in_place ==
    /\ passes < MaxPasses
    /\ tbl' = Normalizer(tbl)
    /\ passes' = passes + 1
    /\ UNCHANGED <<files, proc, last, listed, nreq, raw>>

(* --------------------------- specifications --------------------------- *)

ServerInit ==
    /\ files = [q \in {} |-> EmptyFrame]
    /\ proc = [w \in Workers |-> Idle]
    /\ last = NoResponse
    /\ listed = {}
    /\ nreq = 0

PipelineIdle ==
    /\ raw = EmptyFrame
    /\ tbl = EmptyFrame
    /\ passes = 0

\* one worker process, every handler
Init == ServerInit /\ PipelineIdle

Next ==
    \E w \in { 1 } :
        \/ \E filename \in FileNames, upload \in Uploads : post_upload(w, filename, upload)
        \/ \E filename \in FileNames, upload \in Uploads : generate_all_plots(w, filename, upload)
        \/ \E fault \in Faults : generate_all_plots_loop(w, fault)
        \/ \E plot_name \in PlotNames : download_plot(w, plot_name)
        \/ download_all_plots(w)

Spec == Init /\ [][Next]_vars

\* several worker processes sharing the plot directory: sweeps of two
\* uploads with the same column, and archives
ConcurrentUploads ==
    { Parsed(DataFrame(<<Col(ColA, TRUE)>>, << <<"1">> >>)),
      Parsed(DataFrame(<<Col(ColA, TRUE)>>, << <<Missing>> >>)) }

NextWorkers ==
    \E w \in Workers :
        \/ \E upload \in ConcurrentUploads : generate_all_plots(w, GoodName, upload)
        \/ generate_all_plots_loop(w, "none")
        \/ download_all_plots(w)

SpecWorkers == Init /\ [][NextWorkers]_vars

\* the upload pipeline over every table of IsFrame
InitTable ==
    /\ ServerInit
    /\ IsFrame(raw)
    /\ WellFormed(raw)
    /\ tbl = raw
    /\ passes = 0

NextTable ==
    \/ normalize_in_place
    \/ post_upload(1, GoodName, Parsed(raw))

SpecTable == InitTable /\ [][NextTable]_vars

(* ------------------------------- claims ------------------------------- *)

\* this step takes a sweep's request
BeginsSweep(w) == proc[w].pc = "idle" /\ proc'[w].pc = "sweep"

\* this step takes a request and answers it
Answers == nreq' # nreq /\ \A w \in Workers : ~BeginsSweep(w)

BadName(filename) == ~endswith(filename, ExcelSuffixes)

\* C1: a POST /upload/ or POST /generate-plots/ request whose file name ends
\* neither in ".xls" nor in ".xlsx" is answered 400 in the step that takes
\* it, without a call of the parser and with the plot directory as it was;
\* no sweep ever starts for such a file name.
C1_InvalidExtensionRejected ==
    [][ /\ \A w \in Workers : BeginsSweep(w) => ~BadName(proc'[w].filename)
        /\ (Answers /\ last'.ep \in { "upload", "generate" } /\ BadName(last'.filename))
              => /\ last'.status = 400
                 /\ ~last'.read
                 /\ ZipAll(files') = ZipAll(files) ]_vars

C1_Witness ==
    /\ last.ep = "generate"
    /\ last.filename = <<"d", ".", "c", "s", "v">>
    /\ last.upload.ok
    /\ last.status = 400
    /\ listdir(files) # {}

NoNumeric(df) == \A c \in 1..Len(df.cols) : ~df.cols[c].numeric

\* C2: a POST /generate-plots/ request whose spreadsheet parses to a table
\* without a numeric column is answered 400 in the step that takes it and
\* leaves the plot directory as it was; no sweep ever starts for such a table.
C2_NoNumericColumnsRejected ==
    [][ /\ \A w \in Workers : BeginsSweep(w) => ~NoNumeric(proc'[w].upload.df)
        /\ (Answers /\ last'.ep = "generate" /\ ~BadName(last'.filename)
              /\ last'.upload.ok /\ NoNumeric(last'.upload.df))
              => /\ last'.status = 400
                 /\ last'.written = << >>
                 /\ ZipAll(files') = ZipAll(files) ]_vars

C2_Witness ==
    /\ last.ep = "generate"
    /\ ~BadName(last.filename)
    /\ last.upload.ok
    /\ Len(last.upload.df.cols) > 0
    /\ NoNumeric(last.upload.df)
    /\ last.status = 400
    /\ listdir(files) # {}

\* the artifact names the claim lists for a column
ColumnArtifacts(column, n) ==
    <<PlotFileName(column, "line"), PlotFileName(column, "bar")>>
      \o (IF n >= 2 THEN <<PlotFileName(column, "scatter")>> ELSE << >>)
      \o <<PlotFileName(column, "hist")>>

RECURSIVE SweepArtifacts(_, _)
SweepArtifacts(columns, n) ==
    IF columns = << >> THEN << >>
    ELSE ColumnArtifacts(Head(columns), n) \o SweepArtifacts(Tail(columns), n)

ExpectedArtifacts(df) ==
    SweepArtifacts(SelectNumber(df.cols), Len(SelectNumber(df.cols)))

\* C3: the names a successful sweep returns, and the files it writes into
\* the plot directory, are, for each numeric column c in column order,
\* c_line.png, c_bar.png, c_scatter.png iff there are two numeric columns or
\* more, c_hist.png: 3 names for one column, 4 for each of two or more.
C3_SweepArtifacts ==
    (last.ep = "generate" /\ last.status = 200) =>
        LET expected == ExpectedArtifacts(last.upload.df)
            n == Len(SelectNumber(last.upload.df.cols))
        IN  /\ last.plots = expected
            /\ Len(last.plots) = (IF n = 1 THEN 3 ELSE 4 * n)
            /\ Len(last.written) = Len(expected)
            /\ \A i \in 1..Len(expected) :
                  /\ Parent(Resolve(last.written[i])) = PlotDirPath
                  /\ basename(last.written[i]) = expected[i]

\* C4: every name a successful sweep has listed is a file of the plot
\* directory and GET /download-plot/ answers 200 for it, at the response and
\* ever after.
C4_ListedStayDownloadable ==
    \A name \in listed :
        /\ name \in listdir(files)
        /\ DownloadStatus(files, name) = 200

\* C5: GET /download-plot/ answers 404 for every plot_name that is not the
\* name of a file of the plot directory, and 200 only for the name of one.
C5_DownloadOnlyArtifacts ==
    last.ep = "download_plot" =>
        /\ last.plot_name \notin listdir(files) => last.status = 404
        /\ last.status = 200 => last.plot_name \in listdir(files)

\* C6: GET /download-all-plots/ answers 200 with a zip whose member names are
\* the names of the files in the plot directory at that time (the directory
\* and its files are always readable here, so 500 has no cause).
C6_ArchiveAll ==
    [][ (Answers /\ last'.ep = "download_all")
          => /\ last'.status = 200
             /\ DOMAIN last'.members = listdir(files) ]_vars

Clean(df) ==
    \A r \in 1..Len(df.rows) : \A c \in 1..Len(df.rows[r]) :
        df.rows[r][c] \notin { Missing, PosInf, NegInf }

\* C7: once the normalization has been applied to a table, no cell is
\* missing, +infinite or -infinite, and applying it again leaves the table
\* as the first application made it.
C7_NormalizerIdempotent ==
    passes >= 1 => (Clean(tbl) /\ tbl = Normalizer(raw))

C7_Witness ==
    /\ passes = 2
    /\ \E r1, r2, r3 \in 1..Len(raw.rows) : \E c1, c2, c3 \in 1..Len(raw.cols) :
          /\ raw.rows[r1][c1] = Missing
          /\ raw.rows[r2][c2] = PosInf
          /\ raw.rows[r3][c3] = NegInf

\* C8: the data of an accepted POST /upload/ has one record per row of the
\* table, in row order, num_rows is that count, and every record's keys are
\* the table's column names in column order.
C8_RecordsMatchTable ==
    (last.ep = "upload" /\ last.status = 200) =>
        LET df == last.upload.df
        IN  /\ Len(last.data) = Len(df.rows)
            /\ last.num_rows = Len(df.rows)
            /\ \A r \in 1..Len(last.data) :
                  /\ Len(last.data[r]) = Len(df.cols)
                  /\ \A c \in 1..Len(df.cols) :
                        /\ last.data[r][c].key = df.cols[c].name
                        /\ df.rows[r][c] \notin { Missing, PosInf, NegInf }
                              => last.data[r][c].value = df.rows[r][c]

C8_Witness ==
    /\ last.ep = "upload"
    /\ last.status = 200
    /\ Len(last.upload.df.cols) >= 2
    /\ Len(last.upload.df.rows) >= 2
    /\ last.upload.df.rows[1] # last.upload.df.rows[2]
    /\ last.data[1] # last.data[2]

\* C9: a sweep that fails after some steps is answered 400 without a plot
\* list, and every file its earlier steps wrote is a file of the plot
\* directory that GET /download-plot/ answers 200 for.
C9_FailedSweepKeepsFiles ==
    (last.ep = "generate" /\ last.status = 400 /\ last.written # << >>) =>
        /\ last.plots = << >>
        /\ \A i \in 1..Len(last.written) :
              /\ Parent(Resolve(last.written[i])) = PlotDirPath
              /\ basename(last.written[i]) \in listdir(files)
              /\ DownloadStatus(files, basename(last.written[i])) = 200

\* C10: no request waits for another: a sweep's next iteration can always
\* run, and an idle worker can always build the archive or start a sweep,
\* whatever the other workers are doing.
C10_NoCoordination ==
    \A w \in Workers :
        /\ proc[w].pc = "sweep" => ENABLED generate_all_plots_loop(w, "none")
        /\ (proc[w].pc = "idle" /\ nreq < MaxRequests) =>
              /\ ENABLED download_all_plots(w)
              /\ \A upload \in ConcurrentUploads :
                    ENABLED generate_all_plots(w, GoodName, upload)

Drawn(w) == Normalizer(proc[w].upload.df)

\* two sweeps over a shared column are both under way and have both written
\* the same two files, one of which holds the first upload's plot and the
\* other the second's; and the archive built last, while a sweep was under
\* way, holds a file of that sweep and lacks another
C10_Witness ==
    /\ \E w1, w2 \in Workers :
          /\ w1 # w2
          /\ proc[w1].pc = "sweep" /\ proc[w2].pc = "sweep"
          /\ Drawn(w1) # Drawn(w2)
          /\ \E f, g \in Range(proc[w1].plot_paths) \cap Range(proc[w2].plot_paths) :
                /\ f # g
                /\ files[Resolve(f)] = Drawn(w1)
                /\ files[Resolve(g)] = Drawn(w2)
    /\ last.ep = "download_all"
    /\ \E w \in Workers :
          /\ proc[w].pc = "sweep"
          /\ \E f \in last.during \cap Range(proc[w].plot_paths) :
                basename(f) \in DOMAIN last.members
          /\ \E g \in Range(proc[w].plot_paths) : basename(g) \notin DOMAIN last.members

====
